---- MODULE Spec2Model ----
(***************************************************************************)
(* Model of the heart_of_blockchain donation program                       *)
(* (programs/src): the instructions init_campaign, init_doner,             *)
(* donate_amount, donate_compressed and withdraw acting on CampaignInfo    *)
(* and DonerInfo accounts, together with the pure helpers of               *)
(* donate_compressed.rs (proof extraction, leaf serialisation, campaign    *)
(* state update) and the leaf decoder of tests/test_leaf_formatting.rs.    *)
(* The zk_donations program of ZK-STACK (initialize_campaign and            *)
(* donate_compressed_amount on Campaign accounts) is modelled beside it.   *)
(*                                                                         *)
(* 64-bit integers are kept at full width.  A u64 is a tuple of four       *)
(* 16-bit limbs, most significant first; an i64 is a sign and a            *)
(* magnitude.  Byte strings are sequences of 0..255.                       *)
(***************************************************************************)
EXTENDS Integers, Sequences, FiniteSets, TLC

VARIABLES
    campaign,         \* persisted CampaignInfo account per campaign PDA
    doner_info,       \* persisted DonerInfo account per (campaign PDA, doner)
    tok,              \* SPL token balance per associated token account owner
    tree,             \* state of the external account-compression trees
    clock,            \* Clock sysvar: unix_timestamp the next instruction reads
    acct,             \* in-memory CampaignInfo struct when the last handler returned
    pre,              \* persisted CampaignInfo before the last instruction
    last,             \* arguments and outcome of the last instruction
    events,           \* events emitted by the last instruction
    trace,            \* stages the last donate_compressed went through, in order
    applied,          \* per campaign, the successful compressed donations: amount and update
    codec,            \* last application of one of the pure functions on its own
    zk_campaign,      \* zk_donations: persisted Campaign account per campaign PDA
    zk_tree,          \* zk_donations: state of the Light Protocol trees
    zk_last           \* zk_donations: arguments and outcome of the last instruction

vars == <<campaign, doner_info, tok, tree, clock,
          acct, pre, last, events, trace, applied, codec,
          zk_campaign, zk_tree, zk_last>>

zk_vars == <<zk_campaign, zk_tree, zk_last>>

-----------------------------------------------------------------------------
(* Bounds of the model *)

MaxOps == 3

-----------------------------------------------------------------------------
(* 64-bit arithmetic *)

LimbBase == 65536

U64Zero == <<0, 0, 0, 0>>

U64Max == <<LimbBase - 1, LimbBase - 1, LimbBase - 1, LimbBase - 1>>

\* the u64 of a small natural number (below 2^31)
U64Of(n) == <<0, 0, n \div LimbBase, n % LimbBase>>

\* ripple-carry addition of two u64: the 64-bit sum and the carry out
U64Add(a, b) ==
    LET s4 == a[4] + b[4]
        s3 == a[3] + b[3] + (s4 \div LimbBase)
        s2 == a[2] + b[2] + (s3 \div LimbBase)
        s1 == a[1] + b[1] + (s2 \div LimbBase)
    IN  [val   |-> <<s1 % LimbBase, s2 % LimbBase, s3 % LimbBase, s4 % LimbBase>>,
         carry |-> s1 \div LimbBase]

\* a < b on u64
U64Less(a, b) ==
    \E i \in 1..4 : a[i] < b[i] /\ \A j \in 1..(i - 1) : a[j] = b[j]

U64Geq(a, b) == ~U64Less(a, b)

\* a - b modulo 2^64
U64Sub(a, b) ==
    LET d4 == a[4] - b[4]
        d3 == a[3] - b[3] - (IF d4 < 0 THEN 1 ELSE 0)
        d2 == a[2] - b[2] - (IF d3 < 0 THEN 1 ELSE 0)
        d1 == a[1] - b[1] - (IF d2 < 0 THEN 1 ELSE 0)
    IN  <<d1 % LimbBase, d2 % LimbBase, d3 % LimbBase, d4 % LimbBase>>

None == [some |-> FALSE]

Some(v) == [some |-> TRUE, val |-> v]

\* u64::checked_add
checked_add(a, b) ==
    LET s == U64Add(a, b) IN IF s.carry = 0 THEN Some(s.val) ELSE None

\* u64 addition as `+=` performs it when overflow checks are off
wrapping_add(a, b) == U64Add(a, b).val

\* two's complement negation of a 64-bit pattern
TwosNeg(a) ==
    wrapping_add(<<LimbBase - 1 - a[1], LimbBase - 1 - a[2],
                   LimbBase - 1 - a[3], LimbBase - 1 - a[4]>>, U64Of(1))

\* an i64 value: sign and magnitude
I64(neg, mag) == [neg |-> neg, mag |-> mag]

I64Of(n) == I64(FALSE, U64Of(n))

I64Min == I64(TRUE, <<LimbBase \div 2, 0, 0, 0>>)

I64MinusOne == I64(TRUE, U64Of(1))

-----------------------------------------------------------------------------
(* Little-endian byte conversions *)

\* u64::to_le_bytes: byte k (1..8) is bits [8(k-1), 8k) of the value
u64_to_le_bytes(a) ==
    [k \in 1..8 |->
        LET limb == a[4 - ((k - 1) \div 2)]
        IN  IF (k - 1) % 2 = 0 THEN limb % 256 ELSE limb \div 256]

\* u64::from_le_bytes
u64_from_le_bytes(b) ==
    [j \in 1..4 |-> b[2 * (4 - j) + 1] + 256 * b[2 * (4 - j) + 2]]

\* i64::to_le_bytes: two's complement
i64_to_le_bytes(t) ==
    u64_to_le_bytes(IF t.neg THEN TwosNeg(t.mag) ELSE t.mag)

\* i64::from_le_bytes
i64_from_le_bytes(b) ==
    LET bits == u64_from_le_bytes(b)
    IN  IF bits[1] >= LimbBase \div 2 THEN I64(TRUE, TwosNeg(bits))
                                      ELSE I64(FALSE, bits)

\* &bytes[lo..hi] with 0-based, half-open Rust offsets
Slice(bytes, lo, hi) == SubSeq(bytes, lo + 1, hi)

-----------------------------------------------------------------------------
(* donate_compressed.rs: donation data, leaf, Merkle tree update *)

MinProofLen == 48

LeafLen == 56

MockRootByte == 42

Bytes32(x) == [i \in 1..32 |-> x]

ZeroRoot == Bytes32(0)

Ok(v) == [err |-> "Ok", val |-> v]

Err(e) == [err |-> e]

DonationData(amount, donor_commitment, timestamp) ==
    [amount |-> amount, donor_commitment |-> donor_commitment, timestamp |-> timestamp]

\* DonationLeaf::new
DonationLeaf_new(donation, campaign_id) ==
    [amount           |-> donation.amount,
     donor_commitment |-> donation.donor_commitment,
     timestamp        |-> donation.timestamp,
     campaign_id      |-> campaign_id]

\* serialize with campaign_id written before timestamp
serialize_IdBeforeTime(leaf) ==
    u64_to_le_bytes(leaf.amount) \o leaf.donor_commitment
        \o u64_to_le_bytes(leaf.campaign_id) \o i64_to_le_bytes(leaf.timestamp)

\* serialize with the timestamp written by to_be_bytes
serialize_BigEndianTime(leaf) ==
    LET le == i64_to_le_bytes(leaf.timestamp)
    IN  u64_to_le_bytes(leaf.amount) \o leaf.donor_commitment
            \o [k \in 1..8 |-> le[9 - k]] \o u64_to_le_bytes(leaf.campaign_id)

\* DonationLeaf::serialize
serialize(leaf) ==
    u64_to_le_bytes(leaf.amount) \o leaf.donor_commitment
        \o i64_to_le_bytes(leaf.timestamp) \o u64_to_le_bytes(leaf.campaign_id)

\* extract_donation_data that rejects a payload of exactly 48 bytes
extract_donation_data_OffByOne(proof_data) ==
    IF Len(proof_data) <= MinProofLen
    THEN Err("InvalidProofFormat")
    ELSE Ok(DonationData(u64_from_le_bytes(Slice(proof_data, 0, 8)),
                         Slice(proof_data, 8, 40),
                         i64_from_le_bytes(Slice(proof_data, 40, 48))))

\* extract_donation_data that reads the amount with from_be_bytes
extract_donation_data_BigEndian(proof_data) ==
    IF Len(proof_data) < MinProofLen
    THEN Err("InvalidProofFormat")
    ELSE Ok(DonationData(u64_from_le_bytes([k \in 1..8 |-> proof_data[9 - k]]),
                         Slice(proof_data, 8, 40),
                         i64_from_le_bytes(Slice(proof_data, 40, 48))))

\* DonateCompressed::extract_donation_data
extract_donation_data(proof_data) ==
    IF Len(proof_data) < MinProofLen
    THEN Err("InvalidProofFormat")
    ELSE Ok(DonationData(u64_from_le_bytes(Slice(proof_data, 0, 8)),
                         Slice(proof_data, 8, 40),
                         i64_from_le_bytes(Slice(proof_data, 40, 48))))

\* steps 1 and 2 of donate_compressed: the empty check, then the extraction
ExtractStage(proof_data) ==
    IF Len(proof_data) = 0 THEN Err("InvalidProofData")
                           ELSE extract_donation_data(proof_data)

\* DonateCompressed::extract_merkle_tree_update; now is Clock::get()?.unix_timestamp
extract_merkle_tree_update(now) ==
    [new_merkle_root |-> Bytes32(MockRootByte),
     leaf_index      |-> U64Zero,
     timestamp       |-> now]

\* update_campaign_state that forgets to count the donation
update_campaign_state_NoCount(c, merkle_update, donation_data) ==
    LET c1    == [c EXCEPT !.latest_merkle_root = merkle_update.new_merkle_root]
        total == checked_add(c1.total_donation_received, donation_data.amount)
        c2    == [c1 EXCEPT !.total_donation_received = total.val]
        c4    == [c2 EXCEPT !.last_update_time = merkle_update.timestamp]
    IN  IF ~total.some THEN [err |-> "ArithmeticOverflow", campaign |-> c1]
        ELSE [err |-> "Ok", campaign |-> c4]

\* update_campaign_state that forgets to record the time of the update
update_campaign_state_NoTime(c, merkle_update, donation_data) ==
    LET c1    == [c EXCEPT !.latest_merkle_root = merkle_update.new_merkle_root]
        total == checked_add(c1.total_donation_received, donation_data.amount)
        c2    == [c1 EXCEPT !.total_donation_received = total.val]
        count == checked_add(c2.donation_count, U64Of(1))
        c3    == [c2 EXCEPT !.donation_count = count.val]
    IN  IF ~total.some THEN [err |-> "ArithmeticOverflow", campaign |-> c1]
        ELSE IF ~count.some THEN [err |-> "ArithmeticOverflow", campaign |-> c2]
        ELSE [err |-> "Ok", campaign |-> c3]

\* update_campaign_state with the unchecked `+=` of the test's mock
update_campaign_state_Wrapping(c, merkle_update, donation_data) ==
    [err |-> "Ok",
     campaign |-> [c EXCEPT
         !.latest_merkle_root = merkle_update.new_merkle_root,
         !.total_donation_received = wrapping_add(@, donation_data.amount),
         !.donation_count = wrapping_add(@, U64Of(1)),
         !.last_update_time = merkle_update.timestamp]]

\* DonateCompressed::update_campaign_state: the outcome and the CampaignInfo
\* struct as the function leaves it, field by field in the order of the code
update_campaign_state(c, merkle_update, donation_data) ==
    LET c1    == [c EXCEPT !.latest_merkle_root = merkle_update.new_merkle_root]
        total == checked_add(c1.total_donation_received, donation_data.amount)
        c2    == [c1 EXCEPT !.total_donation_received = total.val]
        count == checked_add(c2.donation_count, U64Of(1))
        c3    == [c2 EXCEPT !.donation_count = count.val]
        c4    == [c3 EXCEPT !.last_update_time = merkle_update.timestamp]
    IN  IF ~total.some THEN [err |-> "ArithmeticOverflow", campaign |-> c1]
        ELSE IF ~count.some THEN [err |-> "ArithmeticOverflow", campaign |-> c2]
        ELSE [err |-> "Ok", campaign |-> c4]

DonationProcessedEvent(campaign_id, donor, donation_data, update) ==
    [campaign_id |-> campaign_id,
     donor       |-> donor,
     amount      |-> donation_data.amount,
     timestamp   |-> donation_data.timestamp,
     leaf_index  |-> update.leaf_index,
     merkle_root |-> update.new_merkle_root]

\* donate_compressed without its STEP 1: an empty payload reaches the extraction
donate_compressed_NoEmptyCheck(c, campaign_id, donor, proof_data, cpi_ok, now) ==
    LET ext    == extract_donation_data(proof_data)
        leaf   == serialize(DonationLeaf_new(ext.val, campaign_id))
        update == extract_merkle_tree_update(now)
        upd    == update_campaign_state(c, update, ext.val)
        base   == [err |-> "Ok", acct |-> c, trace |-> <<>>, leaves |-> <<>>,
                   events |-> <<>>, amount |-> U64Zero, cpi |-> "none",
                   update |-> update]
    IN  IF ext.err # "Ok"
        THEN [base EXCEPT !.err = ext.err, !.trace = <<"extract">>]
        ELSE IF ~cpi_ok
        THEN [base EXCEPT !.err = "MerkleTreeUpdateFailed", !.cpi = "failed",
                          !.amount = ext.val.amount,
                          !.trace = <<"extract", "encode", "append">>,
                          !.leaves = <<leaf>>]
        ELSE IF upd.err # "Ok"
        THEN [base EXCEPT !.err = upd.err, !.acct = upd.campaign, !.cpi = "ok",
                          !.amount = ext.val.amount,
                          !.trace = <<"extract", "encode", "append", "apply">>,
                          !.leaves = <<leaf>>]
        ELSE [base EXCEPT !.acct = upd.campaign, !.cpi = "ok",
                          !.amount = ext.val.amount,
                          !.trace = <<"extract", "encode", "append", "apply", "emit">>,
                          !.leaves = <<leaf>>,
                          !.events = <<DonationProcessedEvent(campaign_id, donor,
                                                              ext.val, update)>>]

\* donate_compressed that updates the campaign before it calls batch_append
donate_compressed_ApplyBeforeAppend(c, campaign_id, donor, proof_data, cpi_ok, now) ==
    LET ext    == extract_donation_data(proof_data)
        leaf   == serialize(DonationLeaf_new(ext.val, campaign_id))
        update == extract_merkle_tree_update(now)
        upd    == update_campaign_state(c, update, ext.val)
        base   == [err |-> "Ok", acct |-> c, trace |-> <<>>, leaves |-> <<>>,
                   events |-> <<>>, amount |-> U64Zero, cpi |-> "none",
                   update |-> update]
    IN  IF Len(proof_data) = 0
        THEN [base EXCEPT !.err = "InvalidProofData"]
        ELSE IF ext.err # "Ok"
        THEN [base EXCEPT !.err = ext.err, !.trace = <<"extract">>]
        ELSE IF upd.err # "Ok"
        THEN [base EXCEPT !.err = upd.err, !.acct = upd.campaign,
                          !.amount = ext.val.amount,
                          !.trace = <<"extract", "encode", "apply">>]
        ELSE IF ~cpi_ok
        THEN [base EXCEPT !.err = "MerkleTreeUpdateFailed", !.cpi = "failed",
                          !.acct = upd.campaign,
                          !.amount = ext.val.amount,
                          !.trace = <<"extract", "encode", "apply", "append">>,
                          !.leaves = <<leaf>>]
        ELSE [base EXCEPT !.acct = upd.campaign, !.cpi = "ok",
                          !.amount = ext.val.amount,
                          !.trace = <<"extract", "encode", "apply", "append", "emit">>,
                          !.leaves = <<leaf>>,
                          !.events = <<DonationProcessedEvent(campaign_id, donor,
                                                              ext.val, update)>>]

\* donate_compressed that hands the raw proof_data to batch_append
donate_compressed_RawProof(c, campaign_id, donor, proof_data, cpi_ok, now) ==
    LET ext    == extract_donation_data(proof_data)
        update == extract_merkle_tree_update(now)
        upd    == update_campaign_state(c, update, ext.val)
        base   == [err |-> "Ok", acct |-> c, trace |-> <<>>, leaves |-> <<>>,
                   events |-> <<>>, amount |-> U64Zero, cpi |-> "none",
                   update |-> update]
    IN  IF Len(proof_data) = 0
        THEN [base EXCEPT !.err = "InvalidProofData"]
        ELSE IF ext.err # "Ok"
        THEN [base EXCEPT !.err = ext.err, !.trace = <<"extract">>]
        ELSE IF ~cpi_ok
        THEN [base EXCEPT !.err = "MerkleTreeUpdateFailed", !.cpi = "failed",
                          !.amount = ext.val.amount,
                          !.trace = <<"extract", "encode", "append">>,
                          !.leaves = <<proof_data>>]
        ELSE IF upd.err # "Ok"
        THEN [base EXCEPT !.err = upd.err, !.acct = upd.campaign, !.cpi = "ok",
                          !.amount = ext.val.amount,
                          !.trace = <<"extract", "encode", "append", "apply">>,
                          !.leaves = <<proof_data>>]
        ELSE [base EXCEPT !.acct = upd.campaign, !.cpi = "ok",
                          !.amount = ext.val.amount,
                          !.trace = <<"extract", "encode", "append", "apply", "emit">>,
                          !.leaves = <<proof_data>>,
                          !.events = <<DonationProcessedEvent(campaign_id, donor,
                                                              ext.val, update)>>]

\* The handler DonateCompressed::donate_compressed on the in-memory account c:
\* the error it returns, the account struct at return, the stages it went
\* through, the leaves it handed to batch_append and the events it emitted.
\* cpi_ok is the outcome of the batch_append CPI.
donate_compressed(c, campaign_id, donor, proof_data, cpi_ok, now) ==
    LET ext    == extract_donation_data(proof_data)
        leaf   == serialize(DonationLeaf_new(ext.val, campaign_id))
        update == extract_merkle_tree_update(now)
        upd    == update_campaign_state(c, update, ext.val)
        base   == [err |-> "Ok", acct |-> c, trace |-> <<>>, leaves |-> <<>>,
                   events |-> <<>>, amount |-> U64Zero, cpi |-> "none",
                   update |-> update]
    IN  IF Len(proof_data) = 0
        THEN [base EXCEPT !.err = "InvalidProofData"]
        ELSE IF ext.err # "Ok"
        THEN [base EXCEPT !.err = ext.err, !.trace = <<"extract">>]
        ELSE IF ~cpi_ok
        THEN [base EXCEPT !.err = "MerkleTreeUpdateFailed", !.cpi = "failed",
                          !.amount = ext.val.amount,
                          !.trace = <<"extract", "encode", "append">>,
                          !.leaves = <<leaf>>]
        ELSE IF upd.err # "Ok"
        THEN [base EXCEPT !.err = upd.err, !.acct = upd.campaign, !.cpi = "ok",
                          !.amount = ext.val.amount,
                          !.trace = <<"extract", "encode", "append", "apply">>,
                          !.leaves = <<leaf>>]
        ELSE [base EXCEPT !.acct = upd.campaign, !.cpi = "ok",
                          !.amount = ext.val.amount,
                          !.trace = <<"extract", "encode", "append", "apply", "emit">>,
                          !.leaves = <<leaf>>,
                          !.events = <<DonationProcessedEvent(campaign_id, donor,
                                                              ext.val, update)>>]

-----------------------------------------------------------------------------
(* tests: the proof builder and the leaf decoder *)

\* create_proof_with_amount_and_commitment, with the trailing proof bytes
\* as a parameter
create_proof(amount, commitment, timestamp, trailing) ==
    u64_to_le_bytes(amount) \o commitment \o i64_to_le_bytes(timestamp) \o trailing

\* extract_leaf_components: the slices panic when the input is too short
extract_leaf_components(leaf_data) ==
    IF Len(leaf_data) < LeafLen
    THEN [panic |-> TRUE]
    ELSE [panic            |-> FALSE,
          amount           |-> u64_from_le_bytes(Slice(leaf_data, 0, 8)),
          donor_commitment |-> Slice(leaf_data, 8, 40),
          timestamp        |-> i64_from_le_bytes(Slice(leaf_data, 40, 48)),
          campaign_id      |-> u64_from_le_bytes(Slice(leaf_data, 48, 56))]

-----------------------------------------------------------------------------
(* Accounts, keys and inputs *)

Users == {"alice", "bob"}

\* the users that create campaigns
Creators == {"alice"}

CampIds == {1, 2}

Titles == {"Aid"}

\* the campaign PDA: seeds = [campaign_id.to_le_bytes(), title.as_bytes()]
CampKeys == CampIds \X Titles

TreeKeys == {"tree1", "tree2"}

\* authority of a user's associated token account (campaign ids are not 0)
Wallet(u) == <<0, u>>

\* Pubkey::to_bytes of a user's key: 32 bytes that tell the users apart
Pubkey(u) == Bytes32(IF u = "alice" THEN 161 ELSE 178)

\* authorities of the associated token accounts of the one mint: the users
\* and the campaign PDAs
TokenOwners == {Wallet(u) : u \in Users} \cup CampKeys

UserTokens == 10

PdaTokens == 5

NoAccount == [exists |-> FALSE]

\* amounts offered to donate_amount and withdraw
TransferAmounts == {U64Of(1), U64Of(5)}

\* amounts carried by the proofs offered to donate_compressed
ProofAmounts == {U64Of(50), U64Max}

ProofTime == I64Of(1652300800)

FullProofs ==
    {create_proof(a, Bytes32(1), ProofTime, <<1, 2, 3, 4>>) : a \in ProofAmounts}

Proofs == FullProofs \cup {<<>>, <<1, 2, 3>>}

\* zk_donations: signers, campaign PDAs (seeds: user, campaign_id), queues,
\* and the payloads offered as proof_data
ZkUsers == Users

ZkCampIds == {1, 2}

\* the users who initialise campaigns
ZkCreators == Creators

ZkKeys == ZkCreators \X ZkCampIds

ZkDescriptions == {"Relief"}

QueueKeys == {"queue1", "queue2"}

ZkProofs == {<<>>, <<1, 2, 3>>}

\* the canonical bump of the campaign PDA: a function of its seeds
Bump(user, campaign_id) == 255 - campaign_id

ZkNoAccount ==
    [exists |-> FALSE, user |-> "", campaign_id |-> U64Zero, title |-> "",
     description |-> "", merkle_tree |-> "", output_queue |-> "", bump |-> 0]

ZkNoLast ==
    [op |-> "none", key |-> <<"", 0>>, signer |-> "", err |-> "Ok",
     campaign_id |-> 0, title |-> "", description |-> "",
     merkle_tree |-> "", output_queue |-> "", proof_len |-> 0, cpi |-> "none"]

ZkInit ==
    /\ zk_campaign = [k \in ZkKeys |-> ZkNoAccount]
    /\ zk_tree = [t \in TreeKeys |->
                     [exists |-> FALSE, queue |-> "", leaves |-> 0, last_input |-> <<>>]]
    /\ zk_last = ZkNoLast

NoLast ==
    [op |-> "none", key |-> <<0, "">>, signer |-> "", err |-> "Ok",
     amount |-> U64Zero, mt |-> "", now |-> 0, wrapped |-> FALSE,
     proof_len |-> 0, cpi |-> "none", appends |-> <<>>]

LastOf(op, key, signer, err) ==
    [NoLast EXCEPT !.op = op, !.key = key, !.signer = signer, !.err = err,
                   !.now = clock]

Init ==
    /\ campaign = [k \in CampKeys |-> NoAccount]
    /\ doner_info = [k \in CampKeys \X Users |-> NoAccount]
    /\ tok = [o \in TokenOwners |->
                 IF o \notin CampKeys THEN U64Of(UserTokens) ELSE U64Of(PdaTokens)]
    /\ tree = [t \in TreeKeys |-> [exists |-> FALSE, leaves |-> 0, last_leaf |-> <<>>]]
    /\ clock = 1
    /\ acct = NoAccount
    /\ pre = NoAccount
    /\ last = NoLast
    /\ events = <<>>
    /\ trace = <<>>
    /\ applied = [k \in CampKeys |-> <<>>]
    /\ codec = [op |-> "none"]
    /\ ZkInit

\* an instruction that fails: the transaction is rolled back, nothing persists
Rejected(l, mem) ==
    /\ last' = l
    /\ acct' = mem
    /\ events' = <<>>
    /\ UNCHANGED <<campaign, doner_info, tok, tree, applied, clock>>

\* an instruction that succeeds: time has passed when the next one runs
Committed ==
    /\ clock <= MaxOps
    /\ clock' = clock + 1

\* the runtime around every instruction: the account the instruction
\* addresses is remembered as it was
Instruction(key) ==
    /\ pre' = campaign[key]
    /\ UNCHANGED <<codec, zk_vars>>

-----------------------------------------------------------------------------
(* init_campaign *)

\* InitializeCampaign::init_campaign on the freshly created account
init_campaign(creator, title, merkle_tree, now) ==
    [exists                  |-> TRUE,
     creator                 |-> creator,
     title                   |-> title,
     description             |-> "description",
     mint                    |-> "mint",
     token_account           |-> creator,
     total_donation_received |-> U64Zero,
     merkle_tree             |-> merkle_tree,
     latest_merkle_root      |-> ZeroRoot,
     donation_count          |-> U64Zero,
     last_update_time        |-> now]

\* init_campaign under init_if_needed: an existing campaign account is
\* handed to the handler again
InitCampaign_IfNeeded ==
    \E key \in CampKeys, creator \in Creators, mt \in TreeKeys, cpi_ok \in BOOLEAN :
        LET c == init_campaign(creator, key[2], mt, I64Of(clock)) IN
        /\ Instruction(key)
        /\ trace' = <<>>
        /\ IF ~cpi_ok \/ (tree[mt].exists /\ ~campaign[key].exists)
           THEN Rejected([LastOf("init_campaign", key, creator, "CreateTreeFailed")
                              EXCEPT !.mt = mt], c)
           ELSE /\ Committed
                /\ campaign' = [campaign EXCEPT ![key] = c]
                /\ tree' = [tree EXCEPT ![mt].exists = TRUE]
                /\ acct' = c
                /\ last' = [LastOf("init_campaign", key, creator, "Ok") EXCEPT !.mt = mt]
                /\ events' = <<>>
                /\ UNCHANGED <<doner_info, tok, applied>>

InitCampaign ==
    \E key \in CampKeys, creator \in Creators, mt \in TreeKeys, cpi_ok \in BOOLEAN :
        LET c == init_campaign(creator, key[2], mt, I64Of(clock)) IN
        /\ Instruction(key)
        /\ trace' = <<>>
        /\ IF campaign[key].exists
           THEN \* #[account(init)]: the PDA is already in use
                Rejected(LastOf("init_campaign", key, creator, "AccountAlreadyInUse"),
                         campaign[key])
           ELSE IF ~cpi_ok \/ tree[mt].exists
           THEN \* create_tree(...)? fails
                Rejected([LastOf("init_campaign", key, creator, "CreateTreeFailed")
                              EXCEPT !.mt = mt], c)
           ELSE /\ Committed
                /\ campaign' = [campaign EXCEPT ![key] = c]
                /\ tree' = [tree EXCEPT ![mt].exists = TRUE]
                /\ acct' = c
                /\ last' = [LastOf("init_campaign", key, creator, "Ok") EXCEPT !.mt = mt]
                /\ events' = <<>>
                /\ UNCHANGED <<doner_info, tok, applied>>

-----------------------------------------------------------------------------
(* init_doner *)

\* InitDoner::init_doner
init_doner(doner, campaign_key) ==
    [exists |-> TRUE, doner |-> doner, amount |-> U64Zero, campaign |-> campaign_key]

InitDoner ==
    \E key \in CampKeys, doner \in Users :
        /\ Instruction(key)
        /\ trace' = <<>>
        /\ IF doner_info[<<key, doner>>].exists
           THEN Rejected(LastOf("init_doner", key, doner, "AccountAlreadyInUse"),
                         campaign[key])
           ELSE /\ Committed
                /\ doner_info' = [doner_info EXCEPT ![<<key, doner>>] =
                                      init_doner(doner, key)]
                /\ acct' = campaign[key]
                /\ last' = LastOf("init_doner", key, doner, "Ok")
                /\ events' = <<>>
                /\ UNCHANGED <<campaign, tok, tree, applied>>

-----------------------------------------------------------------------------
(* SPL token program and unchecked arithmetic *)

\* anchor_spl::token::transfer_checked between two associated token accounts
transfer_checked(balances, from, to, amount) ==
    IF U64Less(balances[from], amount)
    THEN [ok |-> FALSE, tok |-> balances]
    ELSE IF from = to
    THEN [ok |-> TRUE, tok |-> balances]
    ELSE [ok |-> TRUE,
          tok |-> [balances EXCEPT ![from] = U64Sub(balances[from], amount),
                                   ![to] = wrapping_add(balances[to], amount)]]

\* `a += b` on u64: panics on overflow when the build checks overflow, wraps otherwise
add_assign(a, b, checks) ==
    LET s == U64Add(a, b)
    IN  IF s.carry = 0 THEN [panic |-> FALSE, val |-> s.val, wrapped |-> FALSE]
        ELSE IF checks THEN [panic |-> TRUE, val |-> a, wrapped |-> FALSE]
        ELSE [panic |-> FALSE, val |-> s.val, wrapped |-> TRUE]

-----------------------------------------------------------------------------
(* donate_amount *)

\* donate_amount that also counts the donation in donation_count
donate_amount_Counting(c, d, balances, doner, donation_amount, checks) ==
    LET tr    == transfer_checked(balances, Wallet(doner), Wallet(c.creator), donation_amount)
        damt  == add_assign(d.amount, donation_amount, checks)
        d1    == [d EXCEPT !.amount = damt.val]
        total == add_assign(c.total_donation_received, donation_amount, checks)
        c1    == [c EXCEPT !.total_donation_received = total.val,
                           !.donation_count = wrapping_add(@, U64Of(1))]
    IN  IF ~tr.ok
        THEN [err |-> "TokenError", campaign |-> c, doner |-> d, tok |-> balances,
              wrapped |-> FALSE]
        ELSE IF damt.panic \/ total.panic
        THEN [err |-> "Panic", campaign |-> c, doner |-> d, tok |-> tr.tok,
              wrapped |-> FALSE]
        ELSE [err |-> "Ok", campaign |-> c1, doner |-> d1, tok |-> tr.tok,
              wrapped |-> damt.wrapped \/ total.wrapped]

\* DonateAmount::donate_amount on the in-memory accounts c (campaign) and d (doner)
donate_amount(c, d, balances, doner, donation_amount, checks) ==
    LET tr    == transfer_checked(balances, Wallet(doner), Wallet(c.creator), donation_amount)
        damt  == add_assign(d.amount, donation_amount, checks)
        d1    == [d EXCEPT !.amount = damt.val]
        total == add_assign(c.total_donation_received, donation_amount, checks)
        c1    == [c EXCEPT !.total_donation_received = total.val]
    IN  IF ~tr.ok
        THEN [err |-> "TokenError", campaign |-> c, doner |-> d, tok |-> balances,
              wrapped |-> FALSE]
        ELSE IF damt.panic
        THEN [err |-> "Panic", campaign |-> c, doner |-> d, tok |-> tr.tok,
              wrapped |-> FALSE]
        ELSE IF total.panic
        THEN [err |-> "Panic", campaign |-> c, doner |-> d1, tok |-> tr.tok,
              wrapped |-> FALSE]
        ELSE [err |-> "Ok", campaign |-> c1, doner |-> d1, tok |-> tr.tok,
              wrapped |-> damt.wrapped \/ total.wrapped]

DonateAmount ==
    \* overflow_checks: whether the build makes `+=` panic on overflow
    \E key \in CampKeys, doner \in Users, d \in TransferAmounts,
       overflow_checks \in BOOLEAN :
        LET l == [LastOf("donate_amount", key, doner, "Ok") EXCEPT !.amount = d]
            r == donate_amount(campaign[key], doner_info[<<key, doner>>], tok,
                               doner, d, overflow_checks)
        IN
        /\ Instruction(key)
        /\ trace' = <<>>
        /\ IF ~campaign[key].exists \/ ~doner_info[<<key, doner>>].exists
           THEN Rejected([l EXCEPT !.err = "AccountNotInitialized"], campaign[key])
           ELSE IF r.err # "Ok"
           THEN Rejected([l EXCEPT !.err = r.err], r.campaign)
           ELSE /\ Committed
                /\ campaign' = [campaign EXCEPT ![key] = r.campaign]
                /\ doner_info' = [doner_info EXCEPT ![<<key, doner>>] = r.doner]
                /\ tok' = r.tok
                /\ acct' = r.campaign
                /\ last' = [l EXCEPT !.wrapped = r.wrapped]
                /\ events' = <<>>
                /\ UNCHANGED <<tree, applied>>

-----------------------------------------------------------------------------
(* withdraw *)

\* withdraw that pays out without lowering total_donation_received
withdraw_KeepsTotal(c, key, balances, creator, withdraw_amount) ==
    LET tr == transfer_checked(balances, key, Wallet(creator), withdraw_amount)
    IN  IF c.creator # creator
        THEN [err |-> "Unauthorized", campaign |-> c, tok |-> balances]
        ELSE IF ~U64Geq(c.total_donation_received, withdraw_amount)
        THEN [err |-> "InsufficientFunds", campaign |-> c, tok |-> balances]
        ELSE IF ~tr.ok
        THEN [err |-> "TokenError", campaign |-> c, tok |-> balances]
        ELSE [err |-> "Ok", campaign |-> c, tok |-> tr.tok]

\* withdraw without the require!(total_donation_received >= withdraw_amount)
withdraw_NoFundsCheck(c, key, balances, creator, withdraw_amount) ==
    LET tr == transfer_checked(balances, key, Wallet(creator), withdraw_amount)
        c1 == [c EXCEPT !.total_donation_received =
                            U64Sub(c.total_donation_received, withdraw_amount)]
    IN  IF c.creator # creator
        THEN [err |-> "Unauthorized", campaign |-> c, tok |-> balances]
        ELSE IF ~tr.ok
        THEN [err |-> "TokenError", campaign |-> c, tok |-> balances]
        ELSE [err |-> "Ok", campaign |-> c1, tok |-> tr.tok]

\* Withdraw::withdraw on the in-memory campaign account c
withdraw(c, key, balances, creator, withdraw_amount) ==
    LET tr == transfer_checked(balances, key, Wallet(creator), withdraw_amount)
        c1 == [c EXCEPT !.total_donation_received =
                            U64Sub(c.total_donation_received, withdraw_amount)]
    IN  IF c.creator # creator
        THEN [err |-> "Unauthorized", campaign |-> c, tok |-> balances]
        ELSE IF ~U64Geq(c.total_donation_received, withdraw_amount)
        THEN [err |-> "InsufficientFunds", campaign |-> c, tok |-> balances]
        ELSE IF ~tr.ok
        THEN [err |-> "TokenError", campaign |-> c, tok |-> balances]
        ELSE [err |-> "Ok", campaign |-> c1, tok |-> tr.tok]

\* withdraw whose `creator` account is not declared a Signer: whoever signs
\* can name the recorded creator as the creator account
Withdraw_CreatorNotSigner ==
    \E key \in CampKeys, signer \in Users, w \in TransferAmounts :
        LET creator == IF campaign[key].exists THEN campaign[key].creator ELSE signer
            l == [LastOf("withdraw", key, signer, "Ok") EXCEPT !.amount = w]
            r == withdraw(campaign[key], key, tok, creator, w)
        IN
        /\ Instruction(key)
        /\ trace' = <<>>
        /\ IF ~campaign[key].exists
           THEN Rejected([l EXCEPT !.err = "AccountNotInitialized"], campaign[key])
           ELSE IF r.err # "Ok"
           THEN Rejected([l EXCEPT !.err = r.err], r.campaign)
           ELSE /\ Committed
                /\ campaign' = [campaign EXCEPT ![key] = r.campaign]
                /\ tok' = r.tok
                /\ acct' = r.campaign
                /\ last' = l
                /\ events' = <<>>
                /\ UNCHANGED <<doner_info, tree, applied>>

Withdraw ==
    \E key \in CampKeys, creator \in Users, w \in TransferAmounts :
        LET l == [LastOf("withdraw", key, creator, "Ok") EXCEPT !.amount = w]
            r == withdraw(campaign[key], key, tok, creator, w)
        IN
        /\ Instruction(key)
        /\ trace' = <<>>
        /\ IF ~campaign[key].exists
           THEN Rejected([l EXCEPT !.err = "AccountNotInitialized"], campaign[key])
           ELSE IF campaign[key].creator # creator
           THEN \* has_one = creator
                Rejected([l EXCEPT !.err = "ConstraintHasOne"], campaign[key])
           ELSE IF r.err # "Ok"
           THEN Rejected([l EXCEPT !.err = r.err], r.campaign)
           ELSE /\ Committed
                /\ campaign' = [campaign EXCEPT ![key] = r.campaign]
                /\ tok' = r.tok
                /\ acct' = r.campaign
                /\ last' = l
                /\ events' = <<>>
                /\ UNCHANGED <<doner_info, tree, applied>>

-----------------------------------------------------------------------------
(* donate_compressed *)

\* the instruction once the accounts are validated
DonateCompressedValid(key, donor, mt) ==
    \E proof \in Proofs, cpi_ok \in BOOLEAN :
        LET r == donate_compressed(campaign[key], U64Of(key[1]), donor, proof,
                                   cpi_ok, I64Of(clock))
            l == [LastOf("donate_compressed", key, donor, r.err)
                      EXCEPT !.mt = mt, !.amount = r.amount,
                             !.proof_len = Len(proof), !.cpi = r.cpi,
                             !.appends = [i \in DOMAIN r.leaves |-> Len(r.leaves[i])]]
        IN
        /\ trace' = r.trace
        /\ IF r.err # "Ok"
           THEN Rejected(l, r.acct)
           ELSE /\ Committed
                /\ campaign' = [campaign EXCEPT ![key] = r.acct]
                /\ tree' = [tree EXCEPT ![mt].leaves = @ + 1,
                                        ![mt].last_leaf = r.leaves[1]]
                /\ acct' = r.acct
                /\ last' = l
                /\ events' = r.events
                /\ applied' = [applied EXCEPT ![key] =
                                   Append(@, [amount |-> r.amount, update |-> r.update])]
                /\ UNCHANGED <<doner_info, tok>>

\* donate_compressed with init_if_needed on campaign_account_info: a campaign
\* that does not exist is created on the spot, bound to the tree supplied
DonateCompressed_InitIfNeeded ==
    \E key \in CampKeys, donor \in Users, mt \in TreeKeys, proof \in Proofs :
        LET c == IF campaign[key].exists THEN campaign[key]
                 ELSE init_campaign(donor, key[2], mt, I64Of(clock))
            r == donate_compressed(c, U64Of(key[1]), donor, proof, TRUE, I64Of(clock))
            l == [LastOf("donate_compressed", key, donor, r.err)
                      EXCEPT !.mt = mt, !.amount = r.amount,
                             !.proof_len = Len(proof), !.cpi = r.cpi,
                             !.appends = [i \in DOMAIN r.leaves |-> Len(r.leaves[i])]]
        IN
        /\ Instruction(key)
        /\ trace' = r.trace
        /\ IF mt # c.merkle_tree
           THEN Rejected([l EXCEPT !.err = "ConstraintRaw"], campaign[key])
           ELSE IF r.err # "Ok"
           THEN Rejected(l, r.acct)
           ELSE /\ Committed
                /\ campaign' = [campaign EXCEPT ![key] = r.acct]
                /\ tree' = [tree EXCEPT ![mt].leaves = @ + 1,
                                        ![mt].last_leaf = r.leaves[1]]
                /\ acct' = r.acct
                /\ last' = l
                /\ events' = r.events
                /\ applied' = [applied EXCEPT ![key] =
                                   Append(@, [amount |-> r.amount, update |-> r.update])]
                /\ UNCHANGED <<doner_info, tok>>

DonateCompressed ==
    \E key \in CampKeys, donor \in Users, mt \in TreeKeys :
        LET l == [LastOf("donate_compressed", key, donor, "Ok") EXCEPT !.mt = mt]
        IN
        /\ Instruction(key)
        /\ IF ~campaign[key].exists
           THEN /\ Rejected([l EXCEPT !.err = "AccountNotInitialized"], campaign[key])
                /\ trace' = <<>>
           ELSE IF mt # campaign[key].merkle_tree
           THEN \* constraint = merkle_tree.key() == campaign_account_info.merkle_tree
                /\ Rejected([l EXCEPT !.err = "ConstraintRaw"], campaign[key])
                /\ trace' = <<>>
           ELSE DonateCompressedValid(key, donor, mt)

-----------------------------------------------------------------------------
(* The program *)

Next ==
    \/ InitCampaign
    \/ InitDoner
    \/ DonateAmount
    \/ DonateCompressed
    \/ Withdraw

Spec == Init /\ [][Next]_vars

\* a campaign that receives compressed donations only
NextApply ==
    \/ InitCampaign
    \/ DonateCompressed

SpecApply == Init /\ [][NextApply]_vars

-----------------------------------------------------------------------------
(* Two campaigns side by side: both created by alice, each with its own tree,
   every user registered as a doner of both; donations and withdrawals follow *)

PairTree(key) == IF key[1] = 1 THEN "tree1" ELSE "tree2"

InitPair ==
    /\ campaign = [k \in CampKeys |-> init_campaign("alice", k[2], PairTree(k), I64Of(1))]
    /\ doner_info = [kd \in CampKeys \X Users |-> init_doner(kd[2], kd[1])]
    /\ tok = [o \in TokenOwners |->
                 IF o \notin CampKeys THEN U64Of(UserTokens) ELSE U64Of(PdaTokens)]
    /\ tree = [t \in TreeKeys |-> [exists |-> TRUE, leaves |-> 0, last_leaf |-> <<>>]]
    /\ clock = 2
    /\ acct = NoAccount
    /\ pre = NoAccount
    /\ last = NoLast
    /\ events = <<>>
    /\ trace = <<>>
    /\ applied = [k \in CampKeys |-> <<>>]
    /\ codec = [op |-> "none"]
    /\ ZkInit

NextPair ==
    \/ DonateAmount
    \/ DonateCompressed
    \/ Withdraw

SpecPair == InitPair /\ [][NextPair]_vars

-----------------------------------------------------------------------------
(* The zk_donations program of ZK-STACK *)

\* initialize_campaign that stores the tree key only, not the queue key
initialize_campaign_NoQueue(c, user, campaign_id, title, description, bump, merkle_tree, output_queue, cpi_ok) ==
    LET c1 == [c EXCEPT !.user = user, !.campaign_id = campaign_id, !.title = title,
                        !.description = description, !.bump = bump]
        c2 == [c1 EXCEPT !.merkle_tree = merkle_tree]
    IN  IF ~cpi_ok
        THEN [err |-> "CpiError", campaign |-> c1, cpi |-> "failed"]
        ELSE [err |-> "Ok", campaign |-> c2, cpi |-> "ok"]

\* zk_donations::initialize_campaign on the freshly created Campaign account c;
\* cpi_ok: whether initialize_batched_state_merkle_tree succeeds
initialize_campaign(c, user, campaign_id, title, description, bump, merkle_tree, output_queue, cpi_ok) ==
    LET c1 == [c EXCEPT !.user = user, !.campaign_id = campaign_id, !.title = title,
                        !.description = description, !.bump = bump]
        c2 == [c1 EXCEPT !.merkle_tree = merkle_tree, !.output_queue = output_queue]
    IN  IF ~cpi_ok
        THEN [err |-> "CpiError", campaign |-> c1, cpi |-> "failed"]
        ELSE [err |-> "Ok", campaign |-> c2, cpi |-> "ok"]

\* zk_donations::donate_compressed_amount on the Campaign account c;
\* cpi_ok: whether batch_append succeeds on the payload it is handed
donate_compressed_amount(c, proof_data, cpi_ok) ==
    IF ~cpi_ok
    THEN [err |-> "CpiError", campaign |-> c, cpi |-> "failed", input |-> proof_data]
    ELSE [err |-> "Ok", campaign |-> c, cpi |-> "ok", input |-> proof_data]

\* a zk_donations instruction that fails: nothing persists
ZkRejected(l) ==
    /\ zk_last' = l
    /\ UNCHANGED <<zk_campaign, zk_tree, clock>>

\* what a zk_donations instruction leaves alone
ZkFrame ==
    UNCHANGED <<campaign, doner_info, tok, tree, acct, pre, last, events, trace,
                applied, codec>>

ZkInitializeCampaign ==
    \E user \in ZkCreators, id \in ZkCampIds, title \in Titles,
       description \in ZkDescriptions, mt \in TreeKeys, q \in QueueKeys,
       cpi_ok \in BOOLEAN :
        LET key == <<user, id>>
            \* Light Protocol initialises an account only once
            r == initialize_campaign(ZkNoAccount, user, U64Of(id), title, description,
                                     Bump(user, id), mt, q,
                                     cpi_ok /\ ~zk_tree[mt].exists)
            l == [ZkNoLast EXCEPT !.op = "initialize_campaign", !.key = key,
                                  !.signer = user, !.campaign_id = id,
                                  !.title = title, !.description = description,
                                  !.merkle_tree = mt, !.output_queue = q]
        IN
        /\ ZkFrame
        /\ IF zk_campaign[key].exists
           THEN ZkRejected([l EXCEPT !.err = "AccountAlreadyInUse"])
           ELSE IF r.err # "Ok"
           THEN ZkRejected([l EXCEPT !.err = r.err, !.cpi = r.cpi])
           ELSE /\ Committed
                /\ zk_campaign' = [zk_campaign EXCEPT
                                       ![key] = [r.campaign EXCEPT !.exists = TRUE]]
                /\ zk_tree' = [zk_tree EXCEPT ![mt].exists = TRUE, ![mt].queue = q]
                /\ zk_last' = [l EXCEPT !.cpi = r.cpi]

ZkDonateCompressedAmount ==
    \E key \in ZkKeys, user_donator \in ZkUsers, mt \in TreeKeys, q \in QueueKeys,
       proof_data \in ZkProofs, cpi_ok \in BOOLEAN :
        LET r == donate_compressed_amount(zk_campaign[key], proof_data, cpi_ok)
            l == [ZkNoLast EXCEPT !.op = "donate_compressed_amount", !.key = key,
                                  !.signer = user_donator, !.merkle_tree = mt,
                                  !.output_queue = q, !.proof_len = Len(proof_data)]
        IN
        /\ ZkFrame
        /\ IF ~zk_campaign[key].exists
           THEN ZkRejected([l EXCEPT !.err = "AccountNotInitialized"])
           ELSE IF zk_campaign[key].merkle_tree # mt
           THEN \* has_one = merkle_tree
                ZkRejected([l EXCEPT !.err = "ConstraintHasOne"])
           ELSE IF r.err # "Ok"
           THEN ZkRejected([l EXCEPT !.err = r.err, !.cpi = r.cpi])
           ELSE /\ Committed
                /\ zk_campaign' = [zk_campaign EXCEPT ![key] = r.campaign]
                /\ zk_tree' = [zk_tree EXCEPT ![mt].leaves = @ + 1,
                                              ![mt].last_input = r.input]
                /\ zk_last' = [l EXCEPT !.cpi = r.cpi]

NextZk ==
    \/ ZkInitializeCampaign
    \/ ZkDonateCompressedAmount

SpecZk == Init /\ [][NextZk]_vars

-----------------------------------------------------------------------------
(* The pure functions on their own, on inputs drawn from bounded sets *)

UnitAmounts == {U64Zero, U64Of(50), U64Of(100), U64Of(12345), <<258, 772, 1286, 1800>>, U64Max}

UnitCommitments == {Bytes32(1), [i \in 1..32 |-> 7 * i]}

UnitTimes == {I64Of(0), I64Of(1652300800), I64MinusOne, I64Min,
              I64(FALSE, <<LimbBase \div 2 - 1, LimbBase - 1, LimbBase - 1, LimbBase - 1>>)}

UnitFacts ==
    {DonationData(a, c, t) : a \in {U64Zero, U64Of(100), U64Max},
                             c \in UnitCommitments, t \in UnitTimes}

UnitIds == {U64Zero, U64Of(12345), U64Max}

\* lengths at which the payloads are cut
UnitProofLens == {0, 1, 3, 47, 48, 49, 52}

UnitProofs ==
    {SubSeq(create_proof(f.amount, f.donor_commitment, f.timestamp, trailing), 1, n) :
        f \in UnitFacts, trailing \in {<<1, 2, 3, 4>>, <<200, 100, 50, 25>>},
        n \in UnitProofLens}

UnitLeafLens == {0, 8, 55, 56, 58}

\* campaign accounts as the instructions leave them: never donated to,
\* credited by donate_amount only, or after compressed donations
UnitCampaigns ==
    {[init_campaign("alice", "Aid", "tree1", I64Of(1)) EXCEPT
          !.total_donation_received = t, !.donation_count = U64Zero] :
        t \in {U64Zero, U64Of(100), U64Max}}
    \cup
    {[init_campaign("alice", "Aid", "tree1", I64Of(1)) EXCEPT
          !.total_donation_received = t, !.donation_count = n,
          !.latest_merkle_root = Bytes32(MockRootByte),
          !.last_update_time = I64Of(2)] :
        t \in {U64Of(100), U64Sub(U64Max, U64Of(50)), U64Max},
        n \in {U64Of(5), U64Max}}

UnitExtract ==
    \E p \in UnitProofs :
        /\ codec' = [op |-> "extract", proof |-> p, res |-> ExtractStage(p)]
        /\ UNCHANGED <<campaign, doner_info, tok, tree, clock, acct, pre, last,
                       events, trace, applied, zk_vars>>

UnitEncode ==
    \E f \in UnitFacts, id \in UnitIds :
        /\ codec' = [op |-> "encode", facts |-> f, campaign_id |-> id,
                     leaf |-> serialize(DonationLeaf_new(f, id))]
        /\ UNCHANGED <<campaign, doner_info, tok, tree, clock, acct, pre, last,
                       events, trace, applied, zk_vars>>

\* the leaf just encoded, cut or extended to n bytes, is decoded
UnitDecode ==
    \E n \in UnitLeafLens :
        /\ codec.op = "encode"
        /\ codec' = [op |-> "decode", facts |-> codec.facts,
                     campaign_id |-> codec.campaign_id,
                     input |-> SubSeq(codec.leaf \o <<9, 9>>, 1, n),
                     res |-> extract_leaf_components(
                                 SubSeq(codec.leaf \o <<9, 9>>, 1, n))]
        /\ UNCHANGED <<campaign, doner_info, tok, tree, clock, acct, pre, last,
                       events, trace, applied, zk_vars>>

UnitApply ==
    \E c \in UnitCampaigns, a \in {U64Zero, U64Of(1), U64Of(50), U64Max} :
        LET update == extract_merkle_tree_update(I64Of(3))
            data   == DonationData(a, Bytes32(1), I64Of(1652400000))
        IN
        /\ codec' = [op |-> "apply", before |-> c, amount |-> a, update |-> update,
                     res |-> update_campaign_state(c, update, data)]
        /\ UNCHANGED <<campaign, doner_info, tok, tree, clock, acct, pre, last,
                       events, trace, applied, zk_vars>>

NextUnit ==
    \/ UnitExtract
    \/ UnitEncode
    \/ UnitDecode
    \/ UnitApply

SpecUnit == Init /\ [][NextUnit]_vars

-----------------------------------------------------------------------------
(* Claims *)

AggregateOf(c) ==
    <<c.latest_merkle_root, c.total_donation_received, c.donation_count,
      c.last_update_time>>

HandlerErrors ==
    {"InvalidProofData", "InvalidProofFormat", "MerkleTreeUpdateFailed",
     "ArithmeticOverflow"}

\* C1: when update_campaign_state fails with ArithmeticOverflow, the campaign
\* account it was given still has the latest_merkle_root,
\* total_donation_received, donation_count and last_update_time it had before
\* the call.
C1_ApplyAtomicOnOverflow ==
    (codec.op = "apply" /\ codec.res.err = "ArithmeticOverflow")
        => AggregateOf(codec.res.campaign) = AggregateOf(codec.before)

\* C2: a donate_compressed that fails leaves the persisted campaign exactly as
\* it was before the instruction, and the error is that of the first stage
\* that failed: InvalidProofData for an empty payload, InvalidProofFormat for
\* 1..47 bytes, MerkleTreeUpdateFailed for a failed batch_append,
\* ArithmeticOverflow when an addition overflows.
C2_FailedDonationIsRolledBack ==
    (last.op = "donate_compressed" /\ last.err # "Ok") =>
        /\ campaign[last.key] = pre
        /\ last.err \in HandlerErrors =>
            /\ (last.err = "InvalidProofData") <=> (last.proof_len = 0)
            /\ (last.err = "InvalidProofFormat") <=> (last.proof_len \in 1..(MinProofLen - 1))
            /\ (last.err = "MerkleTreeUpdateFailed")
                   <=> (last.proof_len >= MinProofLen /\ last.cpi = "failed")
            /\ (last.err = "ArithmeticOverflow")
                   <=> /\ last.proof_len >= MinProofLen
                       /\ last.cpi = "ok"
                       /\ \/ U64Add(pre.total_donation_received, last.amount).carry = 1
                          \/ pre.donation_count = U64Max

\* a donate_compressed fails at the apply stage after its handler has written
\* to the in-memory account
C2_Witness ==
    /\ last.op = "donate_compressed"
    /\ last.err = "ArithmeticOverflow"
    /\ acct # pre
    /\ campaign[last.key] = pre

\* the exact sum of the amounts of a sequence of donations, and whether it
\* leaves the 64-bit range
RECURSIVE SumApplied(_)
SumApplied(ds) ==
    IF ds = <<>> THEN [val |-> U64Zero, over |-> FALSE]
    ELSE LET rest == SumApplied(SubSeq(ds, 1, Len(ds) - 1))
             s    == U64Add(rest.val, ds[Len(ds)].amount)
         IN  [val |-> s.val, over |-> rest.over \/ s.carry = 1]

\* the same sum in plain integers, for amounts below 2^16
RECURSIVE SmallSum(_)
SmallSum(ds) ==
    IF ds = <<>> THEN 0
    ELSE SmallSum(SubSeq(ds, 1, Len(ds) - 1)) + ds[Len(ds)].amount[4]

AllSmall(ds) ==
    \A i \in 1..Len(ds) :
        ds[i].amount[1] = 0 /\ ds[i].amount[2] = 0 /\ ds[i].amount[3] = 0

\* C3: on a campaign that receives only compressed donations,
\* total_donation_received is the exact sum of the amounts applied and
\* donation_count is their number; each successful application adds exactly
\* its amount to the total and exactly 1 to the count.
C3_TotalsAreSumAndCount ==
    \A k \in CampKeys :
        campaign[k].exists =>
            /\ ~SumApplied(applied[k]).over
            /\ campaign[k].total_donation_received = SumApplied(applied[k]).val
            /\ AllSmall(applied[k]) =>
                   campaign[k].total_donation_received = U64Of(SmallSum(applied[k]))
            /\ campaign[k].donation_count = U64Of(Len(applied[k]))
            /\ (last.op = "donate_compressed" /\ last.err = "Ok" /\ last.key = k) =>
                   /\ U64Add(pre.total_donation_received, last.amount)
                          = [val |-> campaign[k].total_donation_received, carry |-> 0]
                   /\ U64Add(pre.donation_count, U64Of(1))
                          = [val |-> campaign[k].donation_count, carry |-> 0]

\* two donations of 50 have been applied: the campaign holds {100, 2}
C3_Witness ==
    \E k \in CampKeys :
        /\ campaign[k].exists
        /\ Len(applied[k]) = 2
        /\ last.op = "donate_compressed" /\ last.err = "Ok" /\ last.key = k
        /\ pre.total_donation_received = U64Of(50)
        /\ campaign[k].total_donation_received = U64Of(100)
        /\ campaign[k].donation_count = U64Of(2)

\* C4: once a compressed donation has succeeded on a campaign, its
\* latest_merkle_root and last_update_time are the new_merkle_root and the
\* timestamp of the update of the most recent successful one, whatever
\* instructions followed it; a successful donate_compressed leaves the root
\* and the clock time of its own update.
C4_RootAndTimeOfLatestAppend ==
    \A k \in CampKeys :
        (campaign[k].exists /\ applied[k] # <<>>) =>
            LET u == applied[k][Len(applied[k])].update IN
            /\ campaign[k].latest_merkle_root = u.new_merkle_root
            /\ campaign[k].last_update_time = u.timestamp
            /\ (last.op = "donate_compressed" /\ last.err = "Ok" /\ last.key = k) =>
                   u.timestamp = I64Of(last.now)

\* a withdraw has succeeded on a campaign after a compressed donation
C4_Witness ==
    /\ last.op = "withdraw" /\ last.err = "Ok"
    /\ applied[last.key] # <<>>
    /\ campaign[last.key].total_donation_received # pre.total_donation_received
    /\ campaign[last.key].last_update_time = pre.last_update_time

\* C5 as claimed: in every step, a campaign that exists keeps existing and
\* neither its total_donation_received nor its donation_count decreases.
C5_NeverDecrease ==
    [][\A k \in CampKeys :
          campaign[k].exists =>
              /\ campaign'[k].exists
              /\ U64Geq(campaign'[k].total_donation_received,
                        campaign[k].total_donation_received)
              /\ U64Geq(campaign'[k].donation_count, campaign[k].donation_count)]_vars

\* C5 as amended: donation_count never decreases, and total_donation_received
\* decreases only in a successful withdraw on that campaign, by exactly the
\* amount withdrawn, or in a donate_amount on that campaign whose unchecked
\* addition wraps.
C5_DecreaseOnlyByWithdraw ==
    [][\A k \in CampKeys :
          campaign[k].exists =>
              /\ campaign'[k].exists
              /\ U64Geq(campaign'[k].donation_count, campaign[k].donation_count)
              /\ U64Less(campaign'[k].total_donation_received,
                         campaign[k].total_donation_received) =>
                    /\ last'.key = k
                    /\ last'.err = "Ok"
                    /\ \/ /\ last'.op = "withdraw"
                          /\ U64Add(campaign'[k].total_donation_received, last'.amount)
                                 = [val |-> campaign[k].total_donation_received,
                                    carry |-> 0]
                       \/ /\ last'.op = "donate_amount"
                          /\ last'.wrapped]_vars

\* a withdraw has lowered the total of a campaign
C5_Witness ==
    /\ last.op = "withdraw" /\ last.err = "Ok"
    /\ U64Less(campaign[last.key].total_donation_received, pre.total_donation_received)

OtherInstructions == {"donate_amount", "withdraw", "init_doner"}

\* C6 as claimed: donate_amount, withdraw and init_doner leave
\* latest_merkle_root, total_donation_received, donation_count and
\* last_update_time of the campaign as they were.
C6_OnlyApplyWrites ==
    (last.op \in OtherInstructions /\ pre.exists) =>
        AggregateOf(campaign[last.key]) = AggregateOf(pre)

\* C6 as amended: donate_amount, withdraw and init_doner leave
\* latest_merkle_root, donation_count and last_update_time as they were;
\* init_doner and every failed instruction leave total_donation_received as
\* well, which only a successful donate_amount or withdraw changes.
C6_OthersWriteOnlyTotal ==
    (last.op \in OtherInstructions /\ pre.exists) =>
        /\ campaign[last.key].exists
        /\ campaign[last.key].latest_merkle_root = pre.latest_merkle_root
        /\ campaign[last.key].donation_count = pre.donation_count
        /\ campaign[last.key].last_update_time = pre.last_update_time
        /\ (last.op = "init_doner" \/ last.err # "Ok") => campaign[last.key] = pre

\* a donate_amount has changed the total of a campaign that has a root
C6_Witness ==
    /\ last.op = "donate_amount" /\ last.err = "Ok"
    /\ pre.exists
    /\ campaign[last.key].total_donation_received # pre.total_donation_received
    /\ campaign[last.key].donation_count = pre.donation_count

\* C7: steps 1 and 2 of donate_compressed fail with InvalidProofData exactly
\* for the empty payload, with InvalidProofFormat exactly for payloads of 1
\* to 47 bytes, and succeed exactly for payloads of at least 48 bytes.
C7_ExtractionByLength ==
    codec.op = "extract" =>
        /\ (codec.res.err = "InvalidProofData") <=> (Len(codec.proof) = 0)
        /\ (codec.res.err = "InvalidProofFormat") <=> (Len(codec.proof) \in 1..47)
        /\ (codec.res.err = "Ok") <=> (Len(codec.proof) >= 48)

\* a payload of exactly 48 bytes is extracted
C7_Witness ==
    /\ codec.op = "extract"
    /\ Len(codec.proof) = 48
    /\ codec.res.err = "Ok"

\* C8: from a payload of at least 48 bytes the extraction returns the amount
\* whose little-endian bytes are p[0..8), the commitment p[8..40) and the
\* timestamp whose two's complement little-endian bytes are p[40..48); the
\* bytes after offset 48 do not matter.
C8_ExtractionLayout ==
    (codec.op = "extract" /\ Len(codec.proof) >= 48) =>
        /\ codec.res.err = "Ok"
        /\ u64_to_le_bytes(codec.res.val.amount) = Slice(codec.proof, 0, 8)
        /\ codec.res.val.donor_commitment = Slice(codec.proof, 8, 40)
        /\ i64_to_le_bytes(codec.res.val.timestamp) = Slice(codec.proof, 40, 48)
        /\ codec.res = ExtractStage(SubSeq(codec.proof, 1, 48))
        /\ Slice(codec.proof, 0, 8) = <<100, 0, 0, 0, 0, 0, 0, 0>>
               => codec.res.val.amount = <<0, 0, 0, 100>>
        /\ Slice(codec.proof, 40, 48) = <<0, 28, 124, 98, 0, 0, 0, 0>>
               => codec.res.val.timestamp = I64(FALSE, <<0, 0, 25212, 7168>>)
        /\ Slice(codec.proof, 40, 48) = <<255, 255, 255, 255, 255, 255, 255, 255>>
               => codec.res.val.timestamp = I64(TRUE, <<0, 0, 0, 1>>)

\* a payload with trailing bytes yields amount 100 and a negative timestamp
C8_Witness ==
    /\ codec.op = "extract"
    /\ Len(codec.proof) = 52
    /\ codec.res.err = "Ok"
    /\ codec.res.val.amount = <<0, 0, 0, 100>>
    /\ codec.res.val.timestamp.neg

\* C9: the serialised leaf is 56 bytes: the amount at [0,8), the commitment
\* unchanged at [8,40), the timestamp at [40,48) and the campaign_id at
\* [48,56), integers little-endian; the bytes are fixed by the fields alone.
C9_LeafLayout ==
    codec.op = "encode" =>
        /\ Len(codec.leaf) = LeafLen
        /\ \A i \in 1..Len(codec.leaf) : codec.leaf[i] \in 0..255
        /\ u64_from_le_bytes(Slice(codec.leaf, 0, 8)) = codec.facts.amount
        /\ Slice(codec.leaf, 8, 40) = codec.facts.donor_commitment
        /\ i64_from_le_bytes(Slice(codec.leaf, 40, 48)) = codec.facts.timestamp
        /\ u64_from_le_bytes(Slice(codec.leaf, 48, 56)) = codec.campaign_id
        /\ (/\ codec.facts = DonationData(<<0, 0, 0, 100>>, Bytes32(1),
                                          I64(FALSE, <<0, 0, 25212, 7168>>))
            /\ codec.campaign_id = <<0, 0, 0, 12345>>)
               => codec.leaf = <<100, 0, 0, 0, 0, 0, 0, 0>> \o Bytes32(1)
                                   \o <<0, 28, 124, 98, 0, 0, 0, 0>>
                                   \o <<57, 48, 0, 0, 0, 0, 0, 0>>
        /\ codec.facts.timestamp = I64MinusOne
               => Slice(codec.leaf, 40, 48) = <<255, 255, 255, 255, 255, 255, 255, 255>>
        /\ codec.facts.timestamp = I64Min
               => Slice(codec.leaf, 40, 48) = <<0, 0, 0, 0, 0, 0, 0, 128>>

\* the leaf of the tests (100, [1;32], 1652300800, campaign 12345) is encoded
C9_Witness ==
    /\ codec.op = "encode"
    /\ codec.facts.amount = <<0, 0, 0, 100>>
    /\ codec.facts.timestamp = I64(FALSE, <<0, 0, 25212, 7168>>)
    /\ codec.campaign_id = <<0, 0, 0, 12345>>
    /\ Slice(codec.leaf, 48, 56) = <<57, 48, 0, 0, 0, 0, 0, 0>>

\* C10: decoding the encoded leaf returns the amount, commitment, timestamp
\* and campaign_id that were encoded.
C10_RoundTrip ==
    (codec.op = "decode" /\ Len(codec.input) >= LeafLen) =>
        /\ ~codec.res.panic
        /\ codec.res.amount = codec.facts.amount
        /\ codec.res.donor_commitment = codec.facts.donor_commitment
        /\ codec.res.timestamp = codec.facts.timestamp
        /\ codec.res.campaign_id = codec.campaign_id

\* a leaf with the smallest timestamp, the largest amount and campaign_id 0
\* has been decoded
C10_Witness ==
    /\ codec.op = "decode"
    /\ Len(codec.input) = LeafLen
    /\ ~codec.res.panic
    /\ codec.res.timestamp = I64Min
    /\ codec.res.amount = U64Max
    /\ codec.res.campaign_id = U64Zero

\* C11: the leaf decoder answers every input shorter than 56 bytes with an
\* error value (TruncatedLeaf), never with a crash, and decodes every input
\* of at least 56 bytes.
C11_DecodeRejectsShort ==
    codec.op = "decode" =>
        /\ ~codec.res.panic
        /\ Len(codec.input) < LeafLen => codec.res.err = "TruncatedLeaf"
        /\ Len(codec.input) >= LeafLen => codec.res.amount = codec.facts.amount

\* the leaf the last successful donate_compressed handed to batch_append
LastLeaf == tree[last.mt].last_leaf

\* C12: every successful donate_compressed emits exactly one event that
\* carries the campaign id of the call, the donor commitment extracted from
\* the proof, the extracted amount and timestamp, and the leaf index and root
\* of the Merkle tree update; its root is the campaign's latest_merkle_root
\* after the call and its amount is the amount added to the total.
C12_EventCarriesCommitment ==
    (last.op = "donate_compressed" /\ last.err = "Ok") =>
        LET u == applied[last.key][Len(applied[last.key])].update IN
        /\ Len(events) = 1
        /\ events[1].campaign_id = U64Of(last.key[1])
        /\ Pubkey(events[1].donor) = Slice(LastLeaf, 8, 40)
        /\ u64_to_le_bytes(events[1].amount) = Slice(LastLeaf, 0, 8)
        /\ i64_to_le_bytes(events[1].timestamp) = Slice(LastLeaf, 40, 48)
        /\ events[1].leaf_index = u.leaf_index
        /\ events[1].merkle_root = u.new_merkle_root
        /\ events[1].merkle_root = campaign[last.key].latest_merkle_root
        /\ U64Add(pre.total_donation_received, events[1].amount)
               = [val |-> campaign[last.key].total_donation_received, carry |-> 0]

\* C13: had any other donor signed the last successful donate_compressed
\* (same campaign, same proof payload, same outcome of batch_append, same
\* clock), the campaign account, the appended leaf and the emitted event
\* would be the same.
C13_DonorNotRevealed ==
    (last.op = "donate_compressed" /\ last.err = "Ok") =>
        \A d \in Users :
            LET r == donate_compressed(pre, U64Of(last.key[1]), d,
                                       Slice(LastLeaf, 0, MinProofLen), TRUE,
                                       I64Of(last.now))
            IN  /\ r.err = "Ok"
                /\ r.acct = campaign[last.key]
                /\ r.leaves = <<LastLeaf>>
                /\ r.events = events

Stages == <<"extract", "encode", "append", "apply", "emit">>

\* C14: a donate_compressed goes through extract, encode, append, apply, emit
\* in that order, each at most once, and stops at the stage that fails: no
\* append for a payload that fails extraction, no write to the campaign
\* account unless batch_append has returned success, no event unless the
\* campaign account has been updated.
C14_StagesInOrder ==
    last.op = "donate_compressed" =>
        /\ \E n \in 0..Len(Stages) : trace = SubSeq(Stages, 1, n)
        /\ last.err \in {"InvalidProofData", "InvalidProofFormat"} =>
               /\ last.cpi = "none"
               /\ last.appends = <<>>
               /\ \A i \in DOMAIN trace : trace[i] # "append"
        /\ last.cpi # "ok" => acct = pre
        /\ acct # pre => /\ last.cpi = "ok"
                         /\ Len(trace) >= 4
                         /\ trace[3] = "append" /\ trace[4] = "apply"
        /\ events # <<>> =>
               /\ trace = Stages
               /\ last.err = "Ok"
               /\ acct = campaign[last.key]
               /\ acct.latest_merkle_root = events[1].merkle_root
               /\ U64Add(pre.donation_count, U64Of(1)).val = acct.donation_count

\* a donate_compressed has stopped at a failed batch_append with the campaign
\* account untouched
C14_Witness ==
    /\ last.op = "donate_compressed"
    /\ last.err = "MerkleTreeUpdateFailed"
    /\ trace = <<"extract", "encode", "append">>
    /\ pre.exists
    /\ acct = pre

\* C15: a donate_compressed calls batch_append at most once, with the 56-byte
\* serialised leaf; when the call fails the instruction returns
\* MerkleTreeUpdateFailed with no further append, no update of the campaign
\* and no event; every successful instruction adds exactly one leaf to the
\* tree of its campaign and a failed one adds none.
C15_OneAppendNoRetry ==
    /\ last.op = "donate_compressed" =>
           /\ Len(last.appends) <= 1
           /\ \A i \in DOMAIN last.appends : last.appends[i] = LeafLen
           /\ Cardinality({i \in DOMAIN trace : trace[i] = "append"}) = Len(last.appends)
           /\ (last.cpi = "failed") <=> (last.err = "MerkleTreeUpdateFailed")
           /\ last.cpi = "failed" =>
                  /\ Len(last.appends) = 1
                  /\ trace[Len(trace)] = "append"
                  /\ acct = pre
                  /\ campaign[last.key] = pre
                  /\ events = <<>>
           /\ last.err = "Ok" =>
                  /\ Len(LastLeaf) = LeafLen
                  /\ Slice(LastLeaf, 0, 8) = u64_to_le_bytes(last.amount)
                  /\ Slice(LastLeaf, 48, 56) = u64_to_le_bytes(U64Of(last.key[1]))
    /\ \A k \in CampKeys :
           campaign[k].exists =>
               tree[campaign[k].merkle_tree].leaves = Len(applied[k])

\* a batch_append has failed on a campaign whose tree already holds a leaf
C15_Witness ==
    /\ last.op = "donate_compressed"
    /\ last.cpi = "failed"
    /\ last.appends = <<LeafLen>>
    /\ tree[last.mt].leaves = 1
    /\ Len(applied[last.key]) = 1

\* what the doner accounts di of campaign k record as given by donate_amount,
\* modulo 2^64
RECURSIVE DonatedBy(_, _, _)
DonatedBy(di, k, us) ==
    IF us = {} THEN U64Zero
    ELSE LET u == CHOOSE x \in us : TRUE
             d == di[<<k, u>>]
         IN  wrapping_add(DonatedBy(di, k, us \ {u}),
                          IF d.exists THEN d.amount ELSE U64Zero)

\* the books of a campaign c with token account balance t, compressed
\* donations ap and doner accounts di: what it holds plus what was withdrawn
\* from its token account is what its own donations brought in, modulo 2^64
Ledger(c, t, ap, di, k) ==
    wrapping_add(c.total_donation_received, U64Sub(U64Of(PdaTokens), t))
        = wrapping_add(SumApplied(ap).val, DonatedBy(di, k, Users))

\* an instruction leaves the accounts of every campaign it does not address
OthersUntouched ==
    \A k \in CampKeys :
        k # last'.key =>
            /\ campaign'[k] = campaign[k]
            /\ applied'[k] = applied[k]
            /\ tok'[k] = tok[k]
            /\ \A u \in Users : doner_info'[<<k, u>>] = doner_info[<<k, u>>]

\* run alone, the operations of a campaign leave a doner who is not its
\* creator with UserTokens minus what that doner gave to this campaign: a
\* donate_amount that fails for lack of tokens would then have failed alone
AsIfAlone ==
    (/\ last.op = "donate_amount"
     /\ last.err = "TokenError"
     /\ last.signer # campaign[last.key].creator) =>
        U64Less(U64Sub(U64Of(UserTokens), doner_info[<<last.key, last.signer>>].amount),
                last.amount)

C18_RootAlwaysNew ==
    (last.op = "donate_compressed" /\ last.err = "Ok") =>
        campaign[last.key].latest_merkle_root # pre.latest_merkle_root

\* C19: the leaf_index of the event of a successful donate_compressed is the
\* number of leaves appended to the campaign's tree so far, this one
\* included, which on a campaign fed by compressed donations only is its
\* donation_count after the call.
C19_LeafIndexIsCount ==
    (last.op = "donate_compressed" /\ last.err = "Ok") =>
        /\ events[1].leaf_index = U64Of(tree[last.mt].leaves)
        /\ events[1].leaf_index = campaign[last.key].donation_count

\* C20: a successful init_campaign creates an account that did not exist,
\* with the zero root, total 0 and count 0; an init_campaign on an existing
\* campaign fails with AccountAlreadyInUse and leaves the account as it was.
C20_CreatedOnceZeroed ==
    last.op = "init_campaign" =>
        /\ last.err = "Ok" =>
               /\ ~pre.exists
               /\ campaign[last.key].exists
               /\ campaign[last.key].latest_merkle_root = ZeroRoot
               /\ campaign[last.key].total_donation_received = U64Zero
               /\ campaign[last.key].donation_count = U64Zero
        /\ pre.exists =>
               /\ last.err = "AccountAlreadyInUse"
               /\ campaign[last.key] = pre
        /\ last.err # "Ok" => campaign[last.key] = pre

\* an init_campaign has been refused on a campaign that holds a donation
C20_Witness ==
    /\ last.op = "init_campaign"
    /\ last.err = "AccountAlreadyInUse"
    /\ campaign[last.key].donation_count = U64Of(1)
    /\ campaign[last.key].total_donation_received # U64Zero
    /\ campaign[last.key].latest_merkle_root # ZeroRoot

\* C21: a donate_compressed on a campaign that has not been created fails
\* before its handler runs: no leaf is handed to batch_append, no tree
\* changes, no campaign account comes into existence and no event is emitted;
\* and a campaign that exists exists after every later instruction.
C21_UninitializedFails ==
    [][/\ \A k \in CampKeys : campaign[k].exists => campaign'[k].exists
       /\ (last'.op = "donate_compressed" /\ ~campaign[last'.key].exists) =>
              /\ last'.err = "AccountNotInitialized"
              /\ last'.appends = <<>>
              /\ last'.cpi = "none"
              /\ trace' = <<>>
              /\ events' = <<>>
              /\ tree' = tree
              /\ campaign' = campaign]_vars

\* a donate_compressed has been refused on a campaign that does not exist
\* while another campaign does
C21_Witness ==
    /\ last.op = "donate_compressed"
    /\ last.err = "AccountNotInitialized"
    /\ ~campaign[last.key].exists
    /\ \E k \in CampKeys : campaign[k].exists /\ applied[k] # <<>>

\* the exact sum, as U64Add gives it, of the total the instruction found and
\* the amount it was asked to add
C22_Sum == U64Add(pre.total_donation_received, last.amount)

\* C22: every addition to total_donation_received (and to a doner's amount)
\* is overflow-safe: a donate_compressed or donate_amount whose exact sum
\* exceeds 2^64-1 fails, and one that succeeds has stored the exact sum,
\* never the sum reduced modulo 2^64.
C22_OverflowSafe ==
    (last.op \in {"donate_compressed", "donate_amount"} /\ pre.exists) =>
        /\ C22_Sum.carry = 1 => last.err # "Ok"
        /\ last.err = "Ok" =>
               /\ ~last.wrapped
               /\ C22_Sum.carry = 0
               /\ campaign[last.key].total_donation_received = C22_Sum.val

\* C26: a withdraw signed by anyone but the campaign's recorded creator fails
\* with Unauthorized or with the has_one constraint error, moves no tokens and
\* leaves the campaign (its total included) as it was; and no instruction
\* changes the creator of a campaign that exists.
C26_OnlyCreatorWithdraws ==
    [][/\ \A k \in CampKeys :
              campaign[k].exists => campaign'[k].creator = campaign[k].creator
       /\ (/\ last'.op = "withdraw"
           /\ campaign[last'.key].exists
           /\ last'.signer # campaign[last'.key].creator) =>
              /\ last'.err \in {"Unauthorized", "ConstraintHasOne"}
              /\ tok' = tok
              /\ campaign' = campaign]_vars

\* bob has been refused a withdrawal that the funds check would have allowed
C26_Witness ==
    /\ last.op = "withdraw"
    /\ campaign[last.key].exists
    /\ last.signer # campaign[last.key].creator
    /\ last.err = "ConstraintHasOne"
    /\ U64Geq(campaign[last.key].total_donation_received, last.amount)
    /\ U64Geq(tok[last.key], last.amount)

\* C27: withdraw(w) by the creator fails with InsufficientFunds when w exceeds
\* total_donation_received; a withdraw that fails, for that or any other
\* reason (a failed token transfer included), moves no tokens and changes no
\* campaign; one that succeeds found total >= w, moves exactly w tokens from
\* the campaign's token account to the creator's and lowers the total by
\* exactly w, without borrow.
C27_WithdrawExact ==
    [][(last'.op = "withdraw" /\ campaign[last'.key].exists) =>
           LET k == last'.key
               w == last'.amount
               c == campaign[k]
           IN  /\ (last'.signer = c.creator /\ U64Less(c.total_donation_received, w))
                      => last'.err = "InsufficientFunds"
               /\ last'.err = "TokenError" =>
                      /\ U64Geq(c.total_donation_received, w)
                      /\ U64Less(tok[k], w)
               /\ last'.err # "Ok" => (tok' = tok /\ campaign' = campaign)
               /\ last'.err = "Ok" =>
                      /\ U64Geq(c.total_donation_received, w)
                      /\ U64Add(campaign'[k].total_donation_received, w)
                             = [val |-> c.total_donation_received, carry |-> 0]
                      /\ U64Add(tok'[k], w) = [val |-> tok[k], carry |-> 0]
                      /\ tok'[Wallet(c.creator)] = wrapping_add(tok[Wallet(c.creator)], w)
                      /\ \A o \in TokenOwners \ {k, Wallet(c.creator)} : tok'[o] = tok[o]
                      /\ \A j \in CampKeys \ {k} : campaign'[j] = campaign[j]]_vars

\* a withdrawal within the recorded total has failed in the token transfer
\* and the total stands; earlier withdrawals from the campaign succeeded
C27_Witness ==
    /\ last.op = "withdraw"
    /\ last.err = "TokenError"
    /\ campaign[last.key] = pre
    /\ U64Geq(pre.total_donation_received, last.amount)
    /\ U64Less(tok[last.key], U64Of(PdaTokens))

\* the doner's tokens after a donation of d: d fewer, or as many when the
\* doner is the creator and the tokens are paid into the account they left
C28_Paid(k, u, d) ==
    IF Wallet(u) = Wallet(campaign[k].creator)
    THEN tok'[Wallet(u)] = tok[Wallet(u)]
    ELSE U64Add(tok'[Wallet(u)], d) = [val |-> tok[Wallet(u)], carry |-> 0]

\* C28: a successful donate_amount(d) takes exactly d tokens from the doner
\* and raises the doner record's amount and the campaign's total by exactly
\* d; when the token transfer fails neither counter changes; a doner record
\* starts at amount 0, cannot be created again, and its amount never decreases.
C28_DonateAmountExact ==
    [][/\ (last'.op = "donate_amount" /\ last'.err = "Ok") =>
              LET k  == last'.key
                  dk == <<last'.key, last'.signer>>
                  d  == last'.amount
              IN  /\ C28_Paid(k, last'.signer, d)
                  /\ doner_info'[dk].amount = U64Add(doner_info[dk].amount, d).val
                  /\ U64Add(doner_info[dk].amount, d).carry = 0
                  /\ campaign'[k].total_donation_received
                         = U64Add(campaign[k].total_donation_received, d).val
                  /\ U64Add(campaign[k].total_donation_received, d).carry = 0
       /\ (last'.op = "donate_amount" /\ last'.err = "TokenError") =>
              (doner_info' = doner_info /\ campaign' = campaign /\ tok' = tok)
       /\ (last'.op = "init_doner" /\ doner_info[<<last'.key, last'.signer>>].exists) =>
              (last'.err # "Ok" /\ doner_info' = doner_info)
       /\ \A dk \in CampKeys \X Users :
              IF doner_info[dk].exists
              THEN /\ doner_info'[dk].exists
                   /\ U64Geq(doner_info'[dk].amount, doner_info[dk].amount)
              ELSE doner_info'[dk].exists => doner_info'[dk].amount = U64Zero]_vars

\* C29: the token account a successful donate_amount(d) credits is the
\* account withdraw debits for that campaign, the associated token account
\* of the campaign PDA: its balance has risen by d.
C29_SameTokenAccount ==
    [][(last'.op = "donate_amount" /\ last'.err = "Ok") =>
           tok'[last'.key] = wrapping_add(tok[last'.key], last'.amount)]_vars

\* C30: a campaign's total_donation_received never exceeds the tokens
\* deposited for it: what its doners paid in through donate_amount less what
\* has left its token account through withdraw.
C30_TotalBackedByTokens ==
    \A k \in CampKeys :
        campaign[k].exists =>
            LET withdrawn == U64Sub(U64Of(PdaTokens), tok[k])
                claimed   == U64Add(campaign[k].total_donation_received, withdrawn)
            IN  /\ claimed.carry = 0
                /\ U64Geq(DonatedBy(doner_info, k, Users), claimed.val)

\* C23: a donate_compressed_amount whose merkle_tree account, or whose
\* output_queue account, is not the one recorded in the campaign fails
\* without a batch_append having been issued.
C23_BoundTreeAndQueue ==
    (zk_last.op = "donate_compressed_amount" /\ zk_campaign[zk_last.key].exists) =>
        /\ zk_last.merkle_tree # zk_campaign[zk_last.key].merkle_tree =>
               (zk_last.err # "Ok" /\ zk_last.cpi = "none")
        /\ zk_last.output_queue # zk_campaign[zk_last.key].output_queue =>
               (zk_last.err # "Ok" /\ zk_last.cpi = "none")

\* the Campaign account initialize_campaign is to leave for the arguments in l
C24_Expected(l) ==
    [exists |-> TRUE, user |-> l.signer, campaign_id |-> U64Of(l.campaign_id),
     title |-> l.title, description |-> l.description,
     merkle_tree |-> l.merkle_tree, output_queue |-> l.output_queue,
     bump |-> Bump(l.signer, l.campaign_id)]

\* C24: after a successful initialize_campaign the campaign holds the signer
\* as user and the campaign_id, title, description, merkle_tree key,
\* output_queue key and bump it was given; a donate_compressed_amount,
\* successful or not, changes no campaign, and no instruction changes a
\* campaign that exists.
C24_FieldsSetThenFrozen ==
    [][/\ (zk_last'.op = "initialize_campaign" /\ zk_last'.err = "Ok") =>
              zk_campaign'[zk_last'.key] = C24_Expected(zk_last')
       /\ zk_last'.op = "donate_compressed_amount" => zk_campaign' = zk_campaign
       /\ \A k \in ZkKeys :
              zk_campaign[k].exists => zk_campaign'[k] = zk_campaign[k]]_vars

\* a campaign has taken two compressed donations, the last through a queue
\* other than its own
C24_Witness ==
    /\ zk_last.op = "donate_compressed_amount"
    /\ zk_last.err = "Ok"
    /\ zk_tree[zk_last.merkle_tree].leaves >= 2
    /\ zk_campaign[zk_last.key].exists
    /\ zk_campaign[zk_last.key].output_queue = "queue2"
    /\ zk_campaign[zk_last.key].merkle_tree = zk_last.merkle_tree
    /\ zk_last.output_queue = "queue1"

\* C25: donate_compressed_amount with empty proof_data fails without a
\* batch_append having been issued, and with non-empty proof_data it
\* succeeds whenever the batch_append succeeds.
C25_EmptyProofRejected ==
    (/\ zk_last.op = "donate_compressed_amount"
     /\ zk_campaign[zk_last.key].exists
     /\ zk_last.merkle_tree = zk_campaign[zk_last.key].merkle_tree) =>
        /\ zk_last.proof_len = 0 => (zk_last.err # "Ok" /\ zk_last.cpi = "none")
        /\ (zk_last.proof_len > 0 /\ zk_last.cpi = "ok") => zk_last.err = "Ok"

====
